---------------------------- MODULE Spec2Model ----------------------------
(***************************************************************************)
(* A model of the renewal-process core of pyrenew:                         *)
(*   - the scan-step factories of pyrenew/convolve.py,                     *)
(*   - compute_infections_from_rt and                                      *)
(*     compute_infections_from_rt_with_feedback                            *)
(*     (pyrenew/latent/infection_functions.py), run as jax.lax.scan loops, *)
(*   - DifferencedProcess.sample (pyrenew/process/differencedprocess.py)   *)
(*     with the discrete integrator it calls,                              *)
(*   - pad_to_match, pad_x_to_match_y and PeriodicBroadcaster              *)
(*     (pyrenew/arrayutils.py),                                            *)
(*   - CFAEPIM_Infections.sample (scratch/tut_epim_port_msr.py),           *)
(*   - two scans that share one factory-produced step function             *)
(*     (pyrenew/convolve.py),                                              *)
(*   - DeterministicProcess.sample (pyrenew/deterministic/process.py),     *)
(*   - Model.run, posterior_predictive, prior_predictive and               *)
(*     RandomVariable.set_timeseries (pyrenew/metaclass.py).               *)
(*                                                                         *)
(* Numbers.  The program computes on floating-point reals; the model       *)
(* computes on integers.  Infections, Rt, kernels and feedback strengths   *)
(* are naturals, and the exponential of the feedback stage is the base-2   *)
(* exponential on naturals, which keeps the properties the engines rely    *)
(* on: exp(0) = 1, exp is strictly increasing, exp(a+b) = exp(a)*exp(b).   *)
(***************************************************************************)
EXTENDS Integers, Sequences, FiniteSets, TLC

VARIABLES
    \* ---- inputs shared by the two infection engines
    I0,                                 \* initial infections (history window)
    Rt,                                 \* Rt / Rt_raw, the driving series
    infection_feedback_strength,        \* [kind |-> "vector" | "scalar", v |-> ...]
    reversed_generation_interval_pmf,
    reversed_infection_feedback_pmf,
    \* ---- one call of compute_infections_from_rt
    renewal,
    \* ---- one call of compute_infections_from_rt_with_feedback
    feedback,
    \* ---- one DifferencedProcess object and one call of its sample()
    differencing_order,
    init_vals,                          \* [ndim |-> 0 | 1 | 2, data |-> ...]
    n,                                  \* [type |-> "int" | "float" | "str", val |-> ...]
    dp,
    \* ---- one call of pad_to_match or pad_x_to_match_y
    pad_args,                           \* [x, y, fill_value, pad_direction, fix_y]
    pad,
    \* ---- one PeriodicBroadcaster object and its calls
    pb_args,                            \* the arguments of the constructor
    pb,
    \* ---- one call of CFAEPIM_Infections.sample
    epim_args,                          \* [I0, gen_int, Rt, P]
    epim,
    \* ---- one step function from a scanner factory and two scans using it
    scan_args,                          \* factory arguments, init and xs of each scan
    scanner,                            \* what the step function holds on to
    scans,
    \* ---- one call of DeterministicProcess.sample
    det_args,                           \* [vars, duration]
    det,
    \* ---- one Model object and the calls made on it
    mdl,
    \* ---- one RandomVariable object and its set_timeseries calls
    rv

infVars == << I0, Rt, infection_feedback_strength,
              reversed_generation_interval_pmf,
              reversed_infection_feedback_pmf, renewal, feedback >>
dpVars  == << differencing_order, init_vals, n, dp >>
padVars  == << pad_args, pad >>
pbVars   == << pb_args, pb >>
epimVars == << epim_args, epim >>
utilVars == << pad_args, pad, pb_args, pb, epim_args, epim >>
scanVars == << scan_args, scanner, scans >>
detVars  == << det_args, det >>
moreVars == << scan_args, scanner, scans, det_args, det, mdl, rv >>
vars    == << I0, Rt, infection_feedback_strength,
              reversed_generation_interval_pmf,
              reversed_infection_feedback_pmf, renewal, feedback,
              differencing_order, init_vals, n, dp,
              pad_args, pad, pb_args, pb, epim_args, epim,
              scan_args, scanner, scans, det_args, det, mdl, rv >>

-----------------------------------------------------------------------------
(* Bounds of the model *)

\* length of the generation-interval / feedback kernels and of I0
KernelLen == 2
\* longest Rt series
MaxT == 2
\* largest argument the feedback exponential is evaluated at
MaxExpArg == 4

\* value domains of the inputs of the infection engines
I0Vals       == {0, 1}
RtVals       == {1, 2}
PmfVals      == {0, 1}
StrengthVals == {0, 1}

-----------------------------------------------------------------------------
(* Array helpers (jax.numpy) *)

RECURSIVE SumSeq(_)
SumSeq(s) == IF s = << >> THEN 0 ELSE Head(s) + SumSeq(Tail(s))

\* jnp.dot of two 1-D arrays of equal length
Dot(a, b) == SumSeq([i \in 1..Len(a) |-> a[i] * b[i]])

\* np.flip
Flip(a) == [i \in 1..Len(a) |-> a[Len(a) + 1 - i]]

\* the two transforms handed to the scanners
IdentityTransform(x) == x
ExpTransform(x) == 2 ^ x

ApplyTransform(t, x) ==
    IF t = "exp" THEN ExpTransform(x) ELSE IdentityTransform(x)

-----------------------------------------------------------------------------
(* pyrenew/convolve.py: the step functions the factories return.  Each    *)
(* takes the carried history and the scanned element and returns          *)
(* <<new carry, per-step output>>.                                         *)

\* mutant: the new value is put in front and the newest entry is dropped
new_convolve_scanner_front(array_to_convolve, transform, history_subset, multiplier) ==
    LET new_val == ApplyTransform(transform,
                       multiplier * Dot(array_to_convolve, history_subset))
        latest  == << new_val >>
                       \o SubSeq(history_subset, 1, Len(history_subset) - 1)
    IN  << latest, new_val >>

\* mutant: no entry of the history is dropped
new_convolve_scanner_keep(array_to_convolve, transform, history_subset, multiplier) ==
    LET new_val == ApplyTransform(transform,
                       multiplier * Dot(array_to_convolve, history_subset))
        latest  == history_subset \o << new_val >>
    IN  << latest, new_val >>

new_convolve_scanner(array_to_convolve, transform, history_subset, multiplier) ==
    LET new_val == ApplyTransform(transform,
                       multiplier * Dot(array_to_convolve, history_subset))
        latest  == Tail(history_subset) \o << new_val >>
    IN  << latest, new_val >>

\* mutant: the second stage convolves with the first kernel again
new_double_convolve_scanner_arr1(arrays_to_convolve, transforms, history_subset, multipliers) ==
    LET arr1    == arrays_to_convolve[1]
        m1      == multipliers[1]
        m2      == multipliers[2]
        m_net1  == ApplyTransform(transforms[1], m1 * Dot(arr1, history_subset))
        new_val == ApplyTransform(transforms[2],
                       m2 * m_net1 * Dot(arr1, history_subset))
        latest  == Tail(history_subset) \o << new_val >>
    IN  << latest, << new_val, m_net1 >> >>

new_double_convolve_scanner(arrays_to_convolve, transforms, history_subset, multipliers) ==
    LET arr1    == arrays_to_convolve[1]
        arr2    == arrays_to_convolve[2]
        m1      == multipliers[1]
        m2      == multipliers[2]
        m_net1  == ApplyTransform(transforms[1], m1 * Dot(arr1, history_subset))
        new_val == ApplyTransform(transforms[2],
                       m2 * m_net1 * Dot(arr2, history_subset))
        latest  == Tail(history_subset) \o << new_val >>
    IN  << latest, << new_val, m_net1 >> >>

-----------------------------------------------------------------------------
(* compute_infections_from_rt: jax.lax.scan(f=incidence_func, init=I0,    *)
(* xs=Rt), one action per scan step, then the return.                      *)

RenewalIdle == [pc |-> "idle", latest |-> << >>, ys |-> << >>,
                all_infections |-> << >>]

RenewalCall ==
    /\ renewal.pc = "start"
    /\ renewal' = [renewal EXCEPT !.pc = "scan", !.latest = I0]
    /\ UNCHANGED << I0, Rt, infection_feedback_strength,
                    reversed_generation_interval_pmf,
                    reversed_infection_feedback_pmf, feedback, dpVars, utilVars, moreVars >>

RenewalScanStep ==
    /\ renewal.pc = "scan"
    /\ Len(renewal.ys) < Len(Rt)
    /\ LET out == new_convolve_scanner(reversed_generation_interval_pmf,
                      "identity", renewal.latest, Rt[Len(renewal.ys) + 1])
       IN  renewal' = [renewal EXCEPT !.latest = out[1],
                                      !.ys = Append(@, out[2])]
    /\ UNCHANGED << I0, Rt, infection_feedback_strength,
                    reversed_generation_interval_pmf,
                    reversed_infection_feedback_pmf, feedback, dpVars, utilVars, moreVars >>

RenewalReturn ==
    /\ renewal.pc = "scan"
    /\ Len(renewal.ys) = Len(Rt)
    /\ renewal' = [renewal EXCEPT !.pc = "done", !.all_infections = renewal.ys]
    /\ UNCHANGED << I0, Rt, infection_feedback_strength,
                    reversed_generation_interval_pmf,
                    reversed_infection_feedback_pmf, feedback, dpVars, utilVars, moreVars >>

-----------------------------------------------------------------------------
(* compute_infections_from_rt_with_feedback: jax.lax.scan(f=feedback_     *)
(* scanner, init=I0, xs=(infection_feedback_strength, Rt_raw)), one       *)
(* action per scan step, then the post-scan product and the return.        *)

FeedbackIdle == [pc |-> "idle", latest |-> << >>, ys |-> << >>,
                 infections |-> << >>, Rt_adjusted |-> << >>]

\* jax.lax.scan reads the leading axis of every leaf of xs before the first
\* step; a leaf without one (a scalar) makes it raise
\* ("scan got value with no leading axis to scan over").
ScanLeavesHaveLeadingAxis(strength) == strength.kind = "vector"

FeedbackCall ==
    /\ feedback.pc = "start"
    /\ IF ScanLeavesHaveLeadingAxis(infection_feedback_strength)
       THEN feedback' = [feedback EXCEPT !.pc = "scan", !.latest = I0]
       ELSE feedback' = [feedback EXCEPT !.pc = "error"]
    /\ UNCHANGED << I0, Rt, infection_feedback_strength,
                    reversed_generation_interval_pmf,
                    reversed_infection_feedback_pmf, renewal, dpVars, utilVars, moreVars >>

\* the argument of the exponential at the next feedback step
FeedbackExpArg ==
    infection_feedback_strength.v[Len(feedback.ys) + 1]
        * Dot(reversed_infection_feedback_pmf, feedback.latest)

\* one step of the scan.  The step is taken only while the argument of the
\* exponential stays within MaxExpArg, which keeps the values of the model
\* finite: a run that leaves this range is not followed further.
FeedbackScanStep ==
    /\ feedback.pc = "scan"
    /\ Len(feedback.ys) < Len(Rt)
    /\ FeedbackExpArg <= MaxExpArg
    /\ LET t   == Len(feedback.ys) + 1
           out == new_double_convolve_scanner(
                      << reversed_infection_feedback_pmf,
                         reversed_generation_interval_pmf >>,
                      << "exp", "identity" >>,
                      feedback.latest,
                      << infection_feedback_strength.v[t], Rt[t] >>)
       IN  feedback' = [feedback EXCEPT !.latest = out[1],
                                        !.ys = Append(@, out[2])]
    /\ UNCHANGED << I0, Rt, infection_feedback_strength,
                    reversed_generation_interval_pmf,
                    reversed_infection_feedback_pmf, renewal, dpVars, utilVars, moreVars >>

\* mutant: the adjustment itself is returned as the adjusted Rt
FeedbackResult_no_product(ys, Rt_raw) ==
    LET infections   == [t \in 1..Len(ys) |-> ys[t][1]]
        R_adjustment == [t \in 1..Len(ys) |-> ys[t][2]]
    IN  << infections, R_adjustment >>

\* lines 182-184: unzip the stacked outputs, multiply the adjustment by Rt_raw
FeedbackResult(ys, Rt_raw) ==
    LET infections   == [t \in 1..Len(ys) |-> ys[t][1]]
        R_adjustment == [t \in 1..Len(ys) |-> ys[t][2]]
        Rt_adjusted  == [t \in 1..Len(ys) |-> R_adjustment[t] * Rt_raw[t]]
    IN  << infections, Rt_adjusted >>

FeedbackReturn ==
    /\ feedback.pc = "scan"
    /\ Len(feedback.ys) = Len(Rt)
    /\ LET res == FeedbackResult(feedback.ys, Rt)
       IN  feedback' = [feedback EXCEPT !.pc = "done",
                                        !.infections = res[1],
                                        !.Rt_adjusted = res[2]]
    /\ UNCHANGED << I0, Rt, infection_feedback_strength,
                    reversed_generation_interval_pmf,
                    reversed_infection_feedback_pmf, renewal, dpVars, utilVars, moreVars >>

-----------------------------------------------------------------------------
(* test_infectionsrtfeedback.py, _infection_w_feedback_alt: the loop-based *)
(* reference.  It takes the kernels unreversed and flips them itself.      *)

RECURSIVE AltLoop(_, _, _, _, _, _, _)
AltLoop(t, I_vec, Rt_adj, gen_int, Rt_in, inf_feedback_strength, inf_feedback_pmf) ==
    IF t = Len(Rt_in)
    THEN << I_vec, Rt_adj >>
    ELSE LET len_gen == Len(gen_int)
             window  == SubSeq(I_vec, t + 1, t + len_gen)
             adj     == Rt_in[t + 1] * ExpTransform(
                            inf_feedback_strength[t + 1]
                                * Dot(window, Flip(inf_feedback_pmf)))
             inf     == adj * Dot(window, Flip(gen_int))
         IN  AltLoop(t + 1,
                     [I_vec EXCEPT ![t + len_gen + 1] = inf],
                     [Rt_adj EXCEPT ![t + 1] = adj],
                     gen_int, Rt_in, inf_feedback_strength, inf_feedback_pmf)

infection_w_feedback_alt(gen_int, Rt_in, I0_in, inf_feedback_strength, inf_feedback_pmf) ==
    LET T     == Len(Rt_in)
        zeros == [i \in 1..T |-> 0]
        out   == AltLoop(0, I0_in \o zeros, zeros, gen_int, Rt_in,
                         inf_feedback_strength, inf_feedback_pmf)
    IN  [post_initialization_infections |->
             SubSeq(out[1], Len(I0_in) + 1, Len(out[1])),
         rt |-> out[2]]

-----------------------------------------------------------------------------
(* Initial states of the infection engines: every input within the bounds, *)
(* both calls about to be made on the same inputs.                         *)

SeqsOfLen(S, k) == [1..k -> S]

InfInputs ==
    /\ I0 \in SeqsOfLen(I0Vals, KernelLen)
    /\ reversed_generation_interval_pmf \in SeqsOfLen(PmfVals, KernelLen)
    /\ reversed_infection_feedback_pmf \in SeqsOfLen(PmfVals, KernelLen)
    /\ \E T \in 1..MaxT :
          /\ Rt \in SeqsOfLen(RtVals, T)
          /\ \/ \E v \in SeqsOfLen(StrengthVals, T) :
                    infection_feedback_strength = [kind |-> "vector", v |-> v]
             \/ \E s \in StrengthVals :
                    infection_feedback_strength = [kind |-> "scalar", v |-> s]

InfIdle ==
    /\ I0 = << >>
    /\ Rt = << >>
    /\ infection_feedback_strength = [kind |-> "vector", v |-> << >>]
    /\ reversed_generation_interval_pmf = << >>
    /\ reversed_infection_feedback_pmf = << >>
    /\ renewal = RenewalIdle
    /\ feedback = FeedbackIdle

-----------------------------------------------------------------------------
(* DifferencedProcess                                                      *)

\* largest differencing order
MaxOrder == 2
\* largest requested sample length
MaxN == 4

\* value domains of the inputs of DifferencedProcess.sample
InitValSet  == {-1, 0, 2}
Init2dSet   == {0, 1}
DiffValSet  == {-1, 1}

\* what a caller can pass as n: integers (also 0 and a negative one), a
\* float with an integral value (2.0) and a string
NInputs ==
    [type : {"int"}, val : (-1)..MaxN]
        \cup { [type |-> "float", val |-> 2], [type |-> "str", val |-> 2] }

\* what a caller can pass as init_vals: a scalar, a 1-D array of any
\* length up to one more than the largest order, a 2-D array
InitValsInputs ==
    [ndim : {0}, data : InitValSet]
        \cup UNION { [ndim : {1}, data : SeqsOfLen(InitValSet, k)] :
                         k \in 0..(MaxOrder + 1) }
        \cup UNION { [ndim : {2}, data : SeqsOfLen(SeqsOfLen(Init2dSet, c), r)] :
                         r \in 1..MaxOrder, c \in 1..2 }

\* jnp.atleast_1d: a scalar becomes a 1-D array of length 1, everything
\* else is returned as it is
atleast_1d(a) ==
    IF a.ndim = 0 THEN [ndim |-> 1, data |-> << a.data >>] ELSE a

\* a.shape[0] of an array with at least one axis
Shape0(a) == Len(a.data)

\* jnp.cumsum of a 1-D array
RECURSIVE cumsum(_)
cumsum(a) ==
    IF Len(a) <= 1 THEN a
    ELSE LET front == cumsum(SubSeq(a, 1, Len(a) - 1))
         IN  Append(front, front[Len(front)] + a[Len(a)])

\* mutant: the slice is forgotten
Prefix_whole(a, k) == a

\* a[:k] for k >= 0
Prefix(a, k) == SubSeq(a, 1, IF k < Len(a) THEN k ELSE Len(a))

DpIdle == [pc |-> "idle", error |-> "none", diffs |-> << >>,
           fp_calls |-> 0, fp_requested |-> 0,
           rounds |-> 0, integrated |-> << >>, result |-> << >>]

\* mutant: n = 0 passes the positivity check
SampleCheck_zero(order, iv, nn) ==
    IF nn.type # "int" THEN "n must be an integer"
    ELSE IF nn.val < 0 THEN "n must be positive"
    ELSE IF Shape0(atleast_1d(iv)) # order
         THEN "exactly as many initial difference values"
    ELSE "none"

\* mutant: only too few initial values are refused
SampleCheck_fewer(order, iv, nn) ==
    IF nn.type # "int" THEN "n must be an integer"
    ELSE IF nn.val < 1 THEN "n must be positive"
    ELSE IF Shape0(atleast_1d(iv)) < order
         THEN "exactly as many initial difference values"
    ELSE "none"

\* sample(), lines 116-134: the checks on n and on the number of initial
\* values.  Returns the error raised, or "none".
SampleCheck(order, iv, nn) ==
    IF nn.type # "int" THEN "n must be an integer"
    ELSE IF nn.val < 1 THEN "n must be positive"
    ELSE IF Shape0(atleast_1d(iv)) # order
         THEN "exactly as many initial difference values"
    ELSE "none"

SampleValidate ==
    /\ dp.pc = "start"
    /\ LET err == SampleCheck(differencing_order, init_vals, n)
       IN  dp' = [dp EXCEPT !.pc = IF err = "none" THEN "validated" ELSE "error",
                            !.error = err]
    /\ UNCHANGED << infVars, utilVars, moreVars, differencing_order,
                    init_vals, n >>

\* mutant: as many differences as values asked for
NDiffs_all(nn, order) == nn.val

\* mutant: one difference too many
NDiffs_plus_one(nn, order) == nn.val - order + 1

\* sample(), lines 135-146: the number of differences to draw
NDiffs(nn, order) == nn.val - order

\* lines 137-146: the fundamental process is asked for n_diffs values in one
\* call when n_diffs > 0, and is not called otherwise
SampleDiffs ==
    /\ dp.pc = "validated"
    /\ LET n_diffs == NDiffs(n, differencing_order)
       IN  IF n_diffs > 0
           THEN \E diff_samp \in SeqsOfLen(DiffValSet, n_diffs) :
                    dp' = [dp EXCEPT !.pc = "integrate",
                                     !.diffs = diff_samp,
                                     !.fp_calls = @ + 1,
                                     !.fp_requested = @ + n_diffs]
           ELSE dp' = [dp EXCEPT !.pc = "integrate", !.diffs = << >>]
    /\ UNCHANGED << infVars, utilVars, moreVars, differencing_order,
                    init_vals, n >>

\* integrate_discrete(init_vals, diffs): entry.  Initial values that are
\* not 1-dimensional are refused; otherwise integration starts from diffs.
IntegrateStart ==
    /\ dp.pc = "integrate"
    /\ IF atleast_1d(init_vals).ndim # 1
       THEN dp' = [dp EXCEPT !.pc = "error", !.error = "1-dimensional"]
       ELSE dp' = [dp EXCEPT !.pc = "integrating", !.rounds = 0,
                             !.integrated = dp.diffs]
    /\ UNCHANGED << infVars, utilVars, moreVars, differencing_order,
                    init_vals, n >>

\* mutant: every round starts from the first initial value
IntegrateRound_first(inits, rounds, current) ==
    cumsum(<< inits[1] >> \o current)

\* mutant: the initial values are taken in forward order
IntegrateRound_forward(inits, rounds, current) ==
    cumsum(<< inits[rounds + 1] >> \o current)

\* integrate_discrete: one round.  The initial values are taken in reverse
\* order; each is put in front of the current sequence, which is then
\* replaced by its running sum.
IntegrateRound(inits, rounds, current) ==
    cumsum(<< inits[Len(inits) - rounds] >> \o current)

IntegrateStep ==
    /\ dp.pc = "integrating"
    /\ dp.rounds < Len(atleast_1d(init_vals).data)
    /\ dp' = [dp EXCEPT !.rounds = @ + 1,
                        !.integrated = IntegrateRound(atleast_1d(init_vals).data,
                                                      dp.rounds, dp.integrated)]
    /\ UNCHANGED << infVars, utilVars, moreVars, differencing_order,
                    init_vals, n >>

\* sample(), lines 147-148: the first n values of the integrated series
SampleReturn ==
    /\ dp.pc = "integrating"
    /\ dp.rounds = Len(atleast_1d(init_vals).data)
    /\ dp' = [dp EXCEPT !.pc = "done", !.result = Prefix(dp.integrated, n.val)]
    /\ UNCHANGED << infVars, utilVars, moreVars, differencing_order,
                    init_vals, n >>

\* test_differenced_process.py, test_integrator_correctness, lines 117-119:
\* result_manual = diffs; for init in flip(inits): cumsum(hstack([init, ...]))
RECURSIVE result_manual(_, _)
result_manual(inits, diffs) ==
    IF inits = << >> THEN diffs
    ELSE cumsum(<< Head(inits) >> \o result_manual(Tail(inits), diffs))

DpInputs ==
    /\ differencing_order \in 1..MaxOrder
    /\ init_vals \in InitValsInputs
    /\ n \in NInputs

DpIdleInputs ==
    /\ differencing_order = 0
    /\ init_vals = [ndim |-> 1, data |-> << >>]
    /\ n = [type |-> "int", val |-> 0]
    /\ dp = DpIdle

-----------------------------------------------------------------------------
(* arrayutils.py: pad_to_match and pad_x_to_match_y                        *)

\* longest array handed to the padding functions
MaxPadLen == 3

\* value domains of the inputs of the padding functions
PadDataVals  == {1, 2}
FillVals     == {0, 1}
PadDirections == {"start", "end", "middle"}

\* a scalar or a 1-D array of any length up to MaxPadLen
PadArrays ==
    [ndim : {0}, data : PadDataVals]
        \cup UNION { [ndim : {1}, data : SeqsOfLen(PadDataVals, k)] :
                         k \in 0..MaxPadLen }

\* a.size of a 1-D array
Size(a) == Len(a.data)

\* abs()
Abs(v) == IF v < 0 THEN -v ELSE v

\* mutant: the two pad widths are swapped
PadWidth_swapped(pad_direction, pad_size) ==
    IF pad_direction = "start" THEN << 0, pad_size >>
    ELSE IF pad_direction = "end" THEN << pad_size, 0 >>
    ELSE "None"

\* lines 45-47: the pad width of a direction, None for an unknown direction
PadWidth(pad_direction, pad_size) ==
    IF pad_direction = "start" THEN << pad_size, 0 >>
    ELSE IF pad_direction = "end" THEN << 0, pad_size >>
    ELSE "None"

\* jnp.pad(a, pad_width, constant_values=fill_value) of a 1-D array
jnp_pad(a, pad_width, fill_value) ==
    [ndim |-> 1,
     data |-> [i \in 1..pad_width[1] |-> fill_value]
                  \o a.data
                  \o [i \in 1..pad_width[2] |-> fill_value]]

\* mutant: the fix_y error is raised before the direction is looked at
pad_to_match_fix_y_first(x_in, y_in, fill_value, pad_direction, fix_y) ==
    LET x         == atleast_1d(x_in)
        y         == atleast_1d(y_in)
        x_len     == Size(x)
        y_len     == Size(y)
        pad_size  == Abs(x_len - y_len)
        pad_width == PadWidth(pad_direction, pad_size)
    IN  IF x_len > y_len /\ fix_y
        THEN [error |-> "Cannot fix y when x is longer than y", x |-> x, y |-> y]
        ELSE IF pad_width = "None"
        THEN [error |-> "pad_direction must be either 'start' or 'end'",
              x |-> x, y |-> y]
        ELSE IF x_len > y_len
        THEN [error |-> "none", x |-> x,
              y |-> jnp_pad(y, pad_width, fill_value)]
        ELSE IF y_len > x_len
        THEN [error |-> "none", x |-> jnp_pad(x, pad_width, fill_value),
              y |-> y]
        ELSE [error |-> "none", x |-> x, y |-> y]

\* mutant: with fix_y, equal lengths are refused too
pad_to_match_fix_y_geq(x_in, y_in, fill_value, pad_direction, fix_y) ==
    LET x         == atleast_1d(x_in)
        y         == atleast_1d(y_in)
        x_len     == Size(x)
        y_len     == Size(y)
        pad_size  == Abs(x_len - y_len)
        pad_width == PadWidth(pad_direction, pad_size)
    IN  IF pad_width = "None"
        THEN [error |-> "pad_direction must be either 'start' or 'end'",
              x |-> x, y |-> y]
        ELSE IF x_len >= y_len /\ fix_y
        THEN [error |-> "Cannot fix y when x is longer than y", x |-> x, y |-> y]
        ELSE IF x_len > y_len
        THEN [error |-> "none", x |-> x,
              y |-> jnp_pad(y, pad_width, fill_value)]
        ELSE IF y_len > x_len
        THEN [error |-> "none", x |-> jnp_pad(x, pad_width, fill_value),
              y |-> y]
        ELSE [error |-> "none", x |-> x, y |-> y]

\* pad_to_match, lines 39-66.  The result is the error raised ("none" when
\* the call returns) with the two arrays as they are at that point.
pad_to_match(x_in, y_in, fill_value, pad_direction, fix_y) ==
    LET x         == atleast_1d(x_in)
        y         == atleast_1d(y_in)
        x_len     == Size(x)
        y_len     == Size(y)
        pad_size  == Abs(x_len - y_len)
        pad_width == PadWidth(pad_direction, pad_size)
    IN  IF pad_width = "None"
        THEN [error |-> "pad_direction must be either 'start' or 'end'",
              x |-> x, y |-> y]
        ELSE IF x_len > y_len
        THEN IF fix_y
             THEN [error |-> "Cannot fix y when x is longer than y",
                   x |-> x, y |-> y]
             ELSE [error |-> "none", x |-> x,
                   y |-> jnp_pad(y, pad_width, fill_value)]
        ELSE IF y_len > x_len
        THEN [error |-> "none", x |-> jnp_pad(x, pad_width, fill_value),
              y |-> y]
        ELSE [error |-> "none", x |-> x, y |-> y]

\* pad_x_to_match_y, lines 94-96: pad_to_match with fix_y=True, first array
pad_x_to_match_y(x_in, y_in, fill_value, pad_direction) ==
    LET both == pad_to_match(x_in, y_in, fill_value, pad_direction, TRUE)
    IN  [error |-> both.error, x |-> both.x]

PadNotCalled == [pc |-> "idle", op |-> "none", error |-> "none",
                 padded |-> FALSE, x |-> << >>, y |-> << >>]

\* one call of pad_to_match on the arguments of the state
PadToMatchCall ==
    /\ pad.pc = "start"
    /\ LET r == pad_to_match(pad_args.x, pad_args.y, pad_args.fill_value,
                             pad_args.pad_direction, pad_args.fix_y)
       IN  pad' = [pc |-> IF r.error = "none" THEN "done" ELSE "error",
                   op |-> "pad_to_match",
                   error |-> r.error,
                   padded |-> (r.x # atleast_1d(pad_args.x)
                                   \/ r.y # atleast_1d(pad_args.y)),
                   x |-> r.x.data,
                   y |-> r.y.data]
    /\ UNCHANGED << infVars, dpVars, pad_args, pbVars, epimVars, moreVars >>

\* one call of pad_x_to_match_y on the arguments of the state (it has no
\* fix_y argument and returns one array)
PadXToMatchYCall ==
    /\ pad.pc = "start"
    /\ LET r == pad_x_to_match_y(pad_args.x, pad_args.y, pad_args.fill_value,
                                 pad_args.pad_direction)
       IN  pad' = [pc |-> IF r.error = "none" THEN "done" ELSE "error",
                   op |-> "pad_x_to_match_y",
                   error |-> r.error,
                   padded |-> (r.x # atleast_1d(pad_args.x)),
                   x |-> r.x.data,
                   y |-> << >>]
    /\ UNCHANGED << infVars, dpVars, pad_args, pbVars, epimVars, moreVars >>

PadInputs ==
    pad_args \in [x : PadArrays, y : PadArrays, fill_value : FillVals,
                  pad_direction : PadDirections, fix_y : BOOLEAN]

PadIdle ==
    /\ pad_args = [x |-> [ndim |-> 1, data |-> << >>],
                   y |-> [ndim |-> 1, data |-> << >>],
                   fill_value |-> 0, pad_direction |-> "end", fix_y |-> FALSE]
    /\ pad = PadNotCalled

-----------------------------------------------------------------------------
(* arrayutils.py: PeriodicBroadcaster                                      *)

\* largest period_size, longest data, largest n_timepoints, most calls
MaxPeriod     == 3
MaxData       == 2
MaxTimepoints == 4
MaxCalls      == 2

BroadcastTypes == {"repeat", "tile", "stretch"}
PbDataVals     == {1, 2, 3}

\* a constructor argument that should be an int: ints around the valid
\* range and one value of another type
PbIntArgs ==
    [type : {"int"}, val : -1..MaxPeriod] \cup [type : {"float"}, val : {1}]

\* mutant: the offset may equal period_size
validate_offset_leq_period(period_size, offset, broadcast_type) ==
    IF period_size.type # "int" THEN "period_size should be an integer"
    ELSE IF ~(period_size.val > 0) THEN "period_size should be a positive integer"
    ELSE IF offset.type # "int" THEN "offset should be a nonnegative integer"
    ELSE IF ~(0 <= offset.val) THEN "offset should be a nonnegative integer"
    ELSE IF ~(offset.val <= period_size.val)
    THEN "offset should be less than or equal to period_size - 1"
    ELSE IF broadcast_type \notin {"repeat", "tile"}
    THEN "broadcast_type should be either repeat or tile"
    ELSE "none"

\* PeriodicBroadcaster.validate, lines 182-209: the first assertion that
\* fails, "none" when all hold
validate(period_size, offset, broadcast_type) ==
    IF period_size.type # "int" THEN "period_size should be an integer"
    ELSE IF ~(period_size.val > 0) THEN "period_size should be a positive integer"
    ELSE IF offset.type # "int" THEN "offset should be a nonnegative integer"
    ELSE IF ~(0 <= offset.val) THEN "offset should be a nonnegative integer"
    ELSE IF ~(offset.val <= period_size.val - 1)
    THEN "offset should be less than or equal to period_size - 1"
    ELSE IF broadcast_type \notin {"repeat", "tile"}
    THEN "broadcast_type should be either repeat or tile"
    ELSE "none"

\* mutant: each element is laid out reps times in a row
jnp_tile_stretched(data, reps) ==
    [i \in 1..(Len(data) * reps) |-> data[((i - 1) \div reps) + 1]]

\* jnp.tile(data, reps): data concatenated with itself reps times
jnp_tile(data, reps) ==
    [i \in 1..(Len(data) * reps) |-> data[((i - 1) % Len(data)) + 1]]

\* mutant: the whole data is laid out repeats times, one copy after another
jnp_repeat_tiled(data, repeats) ==
    [i \in 1..(Len(data) * repeats) |-> data[((i - 1) % Len(data)) + 1]]

\* jnp.repeat(data, repeats): each element repeats times in a row
jnp_repeat(data, repeats) ==
    [i \in 1..(Len(data) * repeats) |-> data[((i - 1) \div repeats) + 1]]

\* a[start : stop] for 0 <= start <= stop (0-based, stop excluded, cut at
\* the end of a)
Slice(a, start, stop) ==
    SubSeq(a, start + 1, IF stop < Len(a) THEN stop ELSE Len(a))

\* int(jnp.ceil(a / b)) for a >= 0, b > 0
CeilDiv(a, b) == (a + b - 1) \div b

\* mutant: the offset is not applied
broadcast_no_offset(period_size, offset, broadcast_type, data, n_timepoints) ==
    IF broadcast_type = "repeat"
    THEN Slice(jnp_repeat(data, period_size), 0, n_timepoints)
    ELSE Slice(jnp_tile(data, CeilDiv(n_timepoints, period_size)),
               0, n_timepoints)

\* PeriodicBroadcaster.__call__, lines 242-249, of an object with the given
\* parameters
broadcast(period_size, offset, broadcast_type, data, n_timepoints) ==
    IF broadcast_type = "repeat"
    THEN Slice(jnp_repeat(data, period_size), offset, offset + n_timepoints)
    ELSE Slice(jnp_tile(data, CeilDiv(n_timepoints, period_size)),
               offset, offset + n_timepoints)

PbNotConstructed ==
    [pc |-> "idle", error |-> "none", period_size |-> 0, offset |-> 0,
     broadcast_type |-> "none", calls |-> 0, data |-> << >>,
     n_timepoints |-> 0, out |-> << >>]

\* PeriodicBroadcaster.__init__, lines 149-157: validate, then store the
\* three parameters; a failed assertion leaves no object
PbConstruct ==
    /\ pb.pc = "start"
    /\ LET err == validate(pb_args.period_size, pb_args.offset,
                           pb_args.broadcast_type)
       IN  pb' = IF err = "none"
                 THEN [pb EXCEPT !.pc = "ready",
                                 !.period_size = pb_args.period_size.val,
                                 !.offset = pb_args.offset.val,
                                 !.broadcast_type = pb_args.broadcast_type]
                 ELSE [pb EXCEPT !.pc = "error", !.error = err]
    /\ UNCHANGED << infVars, dpVars, padVars, pb_args, epimVars, moreVars >>

\* PeriodicBroadcaster.__call__ on some data and n_timepoints
PbCall ==
    /\ pb.pc = "ready"
    /\ pb.calls < MaxCalls
    /\ \E k \in 1..MaxData, n_timepoints \in 0..MaxTimepoints :
         \E data \in SeqsOfLen(PbDataVals, k) :
            pb' = [pb EXCEPT !.calls = @ + 1,
                             !.data = data,
                             !.n_timepoints = n_timepoints,
                             !.out = broadcast(pb.period_size, pb.offset,
                                               pb.broadcast_type, data,
                                               n_timepoints)]
    /\ UNCHANGED << infVars, dpVars, padVars, pb_args, epimVars, moreVars >>

PbInputs ==
    pb_args \in [period_size : PbIntArgs, offset : PbIntArgs,
                 broadcast_type : BroadcastTypes]

PbIdle ==
    /\ pb_args = [period_size |-> [type |-> "int", val |-> 1],
                  offset |-> [type |-> "int", val |-> 0],
                  broadcast_type |-> "repeat"]
    /\ pb = PbNotConstructed

-----------------------------------------------------------------------------
(* scratch/tut_epim_port_msr.py: CFAEPIM_Infections.sample                 *)
(*                                                                         *)
(* Counts are integers.  The susceptible proportion is drawn in units of   *)
(* 1 / P, and the exponential of the susceptibility adjustment is taken to *)
(* base 2 on whole exponents with floor division, which keeps the          *)
(* adjusted infections between 0 and the susceptible count.                *)

\* longest generation interval, longest I0, longest Rt
MaxGenLen == 2
MaxI0Len  == 3
MaxEpimT  == 2

EpimI0Vals  == {1, 2}
EpimGenVals == {0, 1}
EpimRtVals  == {1, 2}
PopVals     == {4}

\* jnp.clip(v, lo, hi)
Clip(v, lo, hi) == IF v < lo THEN lo ELSE IF v > hi THEN hi ELSE v

\* infection_functions.py lines 53-83; the second argument is the
\* numerator S_t of frac_susceptible = S_t / n_population
logistic_susceptibility_adjustment(I_raw_t, S_t, n_population) ==
    S_t - (S_t \div (2 ^ (I_raw_t \div n_population)))

\* mutant: the first k values are taken
Last_front(a, k) == SubSeq(a, 1, k)

\* a[-k:] for 1 <= k <= Len(a)
Last(a, k) == SubSeq(a, Len(a) - k + 1, Len(a))

\* a[:-1]
DropLast(a) == SubSeq(a, 1, Len(a) - 1)

EpimNotCalled ==
    [pc |-> "idle", error |-> "none", recent_I0 |-> << >>, init_S |-> 0,
     S_t |-> 0, I_recent |-> << >>, t |-> 0, ys |-> << >>,
     all_I_t |-> << >>, all_S_t |-> << >>]

\* lines 434-447: the length check and the initial window
EpimValidate ==
    /\ epim.pc = "start"
    /\ epim' = IF Len(epim_args.I0) < Len(epim_args.gen_int)
               THEN [epim EXCEPT !.pc = "error",
                                 !.error = "Initial infections vector must be at least as long as the generation interval"]
               ELSE [epim EXCEPT !.pc = "validated",
                                 !.recent_I0 = Last(epim_args.I0,
                                                    Len(epim_args.gen_int))]
    /\ UNCHANGED << infVars, dpVars, padVars, pbVars, epim_args, moreVars >>

\* lines 451-459 and 484: draw the susceptible proportion (in units of
\* 1 / P), clip it to [0, 1], scale it by P and build the initial carry
EpimDrawS ==
    /\ epim.pc = "validated"
    /\ \E raw \in -1..(epim_args.P + 1) :
         LET init_S == Clip(raw, 0, epim_args.P)
         IN  epim' = [epim EXCEPT !.pc = "scan",
                                  !.init_S = init_S,
                                  !.S_t = init_S,
                                  !.I_recent = epim.recent_I0]
    /\ UNCHANGED << infVars, dpVars, padVars, pbVars, epim_args, moreVars >>

\* update_infections, lines 461-481, applied to the next element of Rt
EpimScanStep ==
    /\ epim.pc = "scan"
    /\ epim.t < Len(epim_args.Rt)
    /\ LET gen_int_rev == Flip(epim_args.gen_int)
           i_raw_t == epim_args.Rt[epim.t + 1]
                          * Dot(epim.I_recent, gen_int_rev)
           i_t     == logistic_susceptibility_adjustment(
                          i_raw_t, epim.S_t, epim_args.P)
       IN  epim' = [epim EXCEPT !.S_t = @ - i_t,
                                !.I_recent = DropLast(@) \o << i_t >>,
                                !.t = @ + 1,
                                !.ys = Append(@, i_t)]
    /\ UNCHANGED << infVars, dpVars, padVars, pbVars, epim_args, moreVars >>

\* lines 487-491: scan returns (final carry, ys); the final carry (S_t,
\* I_recent) is unpacked as (_, all_S_t) and ys as all_I_t
EpimReturn ==
    /\ epim.pc = "scan"
    /\ epim.t = Len(epim_args.Rt)
    /\ epim' = [epim EXCEPT !.pc = "done",
                            !.all_I_t = epim.ys,
                            !.all_S_t = epim.I_recent]
    /\ UNCHANGED << infVars, dpVars, padVars, pbVars, epim_args, moreVars >>

EpimInputs ==
    \E k \in 1..MaxI0Len, g \in 1..MaxGenLen, T \in 1..MaxEpimT :
        epim_args \in [I0 : SeqsOfLen(EpimI0Vals, k),
                       gen_int : SeqsOfLen(EpimGenVals, g),
                       Rt : SeqsOfLen(EpimRtVals, T),
                       P : PopVals]

EpimIdle ==
    /\ epim_args = [I0 |-> << >>, gen_int |-> << >>, Rt |-> << >>, P |-> 1]
    /\ epim = EpimNotCalled

-----------------------------------------------------------------------------
(* convolve.py: one step function made by new_convolve_scanner or          *)
(* new_double_convolve_scanner, used by two independent jax.lax.scan runs  *)
(* whose steps are taken in any order.  The transforms are the identity.   *)

\* length of the two scanned multiplier series
MaxScanT == 2

ScanInitVals == {1, 2}
ScanMultVals == {1, 2}
\* the multiplier pairs (m1, m2) of the double scanner
ScanMultPairs == {<< 1, 1 >>, << 1, 2 >>}

\* kernels of length k: all weight on the latest value, or equal weights
ScanKernels(k) ==
    { [i \in 1..k |-> IF i = k THEN 1 ELSE 0], [i \in 1..k |-> 1] }

\* what _new_scanner refers to in its enclosing scope: array_to_convolve
\* and transform (lines 24-27, 78-87), or arr1, arr2, t1, t2 (lines 153-167)
NewClosure(args) ==
    [kind |-> args.kind, arrays |-> args.arrays,
     transforms |-> args.transforms]

\* one call of the step function held in closure
StepFunction(closure, history_subset, x) ==
    IF closure.kind = "single"
    THEN new_convolve_scanner(closure.arrays[1], closure.transforms[1],
                              history_subset, x)
    ELSE new_double_convolve_scanner(closure.arrays, closure.transforms,
                                     history_subset, x)

\* mutant: the step function keeps the history it returned in place of its
\* arrays
ClosureAfterCall_keeps_latest(closure, out) ==
    [closure EXCEPT !.arrays = [j \in DOMAIN @ |-> out[1]]]

\* the enclosing scope after a call of _new_scanner: the body (lines 81-85
\* and 161-165) only binds locals, so nothing of it changes
ClosureAfterCall(closure, out) == closure

ScanNotStarted == [carry |-> << >>, given |-> << >>, ys |-> << >>, t |-> 0]

\* one step of one of the scans: the step function is called on the carry and the
\* next element of xs; the carry is replaced by the returned history and
\* the output is collected.  given is the array that was handed to the
\* step function, as it is after the call: the body reads it (lines 82-84,
\* 162-164) and never writes to it.
ScanStep ==
    /\ \E i \in DOMAIN scans :
         /\ scans[i].t < Len(scan_args.xs[i])
         /\ LET out == StepFunction(scanner, scans[i].carry,
                                    scan_args.xs[i][scans[i].t + 1])
            IN  /\ scans' = [scans EXCEPT ![i] =
                                 [carry |-> out[1],
                                  given |-> scans[i].carry,
                                  ys    |-> Append(scans[i].ys, out[2]),
                                  t     |-> scans[i].t + 1]]
                /\ scanner' = ClosureAfterCall(scanner, out)
    /\ UNCHANGED << infVars, dpVars, utilVars, scan_args, detVars, mdl, rv >>

ScanInputs ==
    \/ scan_args \in [kind : {"single"},
                      arrays : SeqsOfLen(ScanKernels(KernelLen), 1),
                      transforms : {<< "identity" >>},
                      init : SeqsOfLen(SeqsOfLen(ScanInitVals, KernelLen), 2),
                      xs : SeqsOfLen(SeqsOfLen(ScanMultVals, MaxScanT), 2)]
    \/ scan_args \in [kind : {"double"},
                      arrays : SeqsOfLen(ScanKernels(KernelLen), 2),
                      transforms : {<< "identity", "identity" >>},
                      init : SeqsOfLen(SeqsOfLen(ScanInitVals, KernelLen), 2),
                      xs : SeqsOfLen(SeqsOfLen(ScanMultPairs, MaxScanT), 2)]

ScanIdle ==
    /\ scan_args = [kind |-> "none", arrays |-> << >>, transforms |-> << >>,
                    init |-> << >>, xs |-> << >>]
    /\ scanner = [kind |-> "none", arrays |-> << >>, transforms |-> << >>]
    /\ scans = << >>

-----------------------------------------------------------------------------
(* deterministic/process.py: DeterministicProcess.sample                   *)

\* longest stored sequence, largest duration
MaxDetLen   == 3
MaxDuration == 4

DetVals == {1, 2, 3}

\* mutant: the sequence is extended with copies of its first value
DeterministicProcess_sample_first(res, duration) ==
    LET dif == duration - Len(res)
    IN  IF dif > 0
        THEN res \o jnp_repeat(<< res[1] >>, dif)
        ELSE Slice(res, 0, duration)

\* sample, lines 37-42, on the stored values res that super().sample()
\* returns (line 35)
DeterministicProcess_sample(res, duration) ==
    LET dif == duration - Len(res)
    IN  IF dif > 0
        THEN res \o jnp_repeat(<< res[Len(res)] >>, dif)
        ELSE Slice(res, 0, duration)

DetNotCalled == [pc |-> "idle", result |-> << >>]

\* one call of DeterministicProcess.sample(duration)
DetSample ==
    /\ det.pc = "start"
    /\ det' = [pc |-> "done",
               result |-> DeterministicProcess_sample(det_args.vars,
                                                      det_args.duration)]
    /\ UNCHANGED << infVars, dpVars, utilVars, scanVars, det_args, mdl, rv >>

DetInputs ==
    \E k \in 1..MaxDetLen :
        det_args \in [vars : SeqsOfLen(DetVals, k), duration : 0..MaxDuration]

DetIdle ==
    /\ det_args = [vars |-> << >>, duration |-> 0]
    /\ det = DetNotCalled

-----------------------------------------------------------------------------
(* metaclass.py: Model.run, posterior_predictive, prior_predictive         *)

\* most calls made on one Model object
MaxMdlCalls == 3

NoPosteriorSamples == "No posterior samples available"

\* mutant: the error is raised whenever the sampler holds no samples
PosteriorCheck_no_samples(mcmc) ==
    IF mcmc # "MCMC with samples" THEN NoPosteriorSamples ELSE "none"

\* posterior_predictive, lines 509-512: the ValueError raised, or "none"
PosteriorCheck(mcmc) ==
    IF mcmc = "None" THEN NoPosteriorSamples ELSE "none"

\* lines 282-283: kernel and mcmc are None until _init_model sets them.
\* log is the sequence of calls made so far with their outcomes.
MdlNew == [exists |-> TRUE, kernel |-> "None", mcmc |-> "None", log |-> << >>]

MdlCanCall == mdl.exists /\ Len(mdl.log) < MaxMdlCalls

\* run, lines 402-420: _init_model builds the NUTS kernel and a new MCMC
\* object and stores both (lines 364-374), then mcmc.run samples.  Either
\* constructor or the sampling itself may raise; each leaves behind what
\* was assigned before it.
MdlRun ==
    /\ MdlCanCall
    /\ \/ mdl' = [mdl EXCEPT !.log = Append(@, << "run", "NUTS raised" >>)]
       \/ mdl' = [mdl EXCEPT !.kernel = "NUTS",
                             !.log = Append(@, << "run", "MCMC raised" >>)]
       \/ mdl' = [mdl EXCEPT !.kernel = "NUTS",
                             !.mcmc = "MCMC without samples",
                             !.log = Append(@, << "run", "mcmc.run raised" >>)]
       \/ mdl' = [mdl EXCEPT !.kernel = "NUTS",
                             !.mcmc = "MCMC with samples",
                             !.log = Append(@, << "run", "returned" >>)]
    /\ UNCHANGED << infVars, dpVars, utilVars, scanVars, detVars, rv >>

\* posterior_predictive, lines 509-526: the check on self.mcmc, then
\* Predictive on self.mcmc.get_samples(), which numpyro answers with an
\* error of its own or with a result when the sampler holds no samples
MdlPosteriorPredictive ==
    /\ MdlCanCall
    /\ \E outcome \in {"raised in numpyro", "returned"} :
         /\ (mdl.mcmc = "MCMC with samples") => outcome = "returned"
         /\ mdl' = [mdl EXCEPT !.log =
                        Append(@, << "posterior_predictive",
                                     IF PosteriorCheck(mdl.mcmc) # "none"
                                     THEN PosteriorCheck(mdl.mcmc)
                                     ELSE outcome >>)]
    /\ UNCHANGED << infVars, dpVars, utilVars, scanVars, detVars, rv >>

\* prior_predictive, lines 549-563: Predictive without posterior samples;
\* self.mcmc is not read
MdlPriorPredictive ==
    /\ MdlCanCall
    /\ mdl' = [mdl EXCEPT !.log = Append(@, << "prior_predictive", "returned" >>)]
    /\ UNCHANGED << infVars, dpVars, utilVars, scanVars, detVars, rv >>

MdlIdle == mdl = [MdlNew EXCEPT !.exists = FALSE]

-----------------------------------------------------------------------------
(* metaclass.py: RandomVariable.set_timeseries                             *)

\* most set_timeseries calls made on one object
MaxTsCalls == 2

None == [type |-> "None", val |-> 0]

\* the values handed to set_timeseries: None, integers, and a float
TsArgs ==
    {None} \cup [type : {"int"}, val : {-1, 0, 1, 7}]
           \cup [type : {"float"}, val : {1}]

\* mutant: a t_unit of 0 is let through
set_timeseries_check_zero(t_start, t_unit) ==
    IF ~(  (t_unit # None /\ t_start # None)
        \/ (t_unit = None /\ t_start = None))
    THEN "Both t_start and t_unit should be None or not None"
    ELSE IF t_unit = None /\ t_start = None THEN "return"
    ELSE IF t_unit.type # "int" THEN "t_unit should be an integer"
    ELSE IF ~(t_unit.val >= 0) THEN "t_unit should be a positive integer"
    ELSE IF t_start.type # "int" THEN "t_start should be an integer"
    ELSE "set"

\* set_timeseries, lines 211-237: the assertion that fails, "return" for
\* the early return, "set" when the two assignments are reached
set_timeseries_check(t_start, t_unit) ==
    IF ~(  (t_unit # None /\ t_start # None)
        \/ (t_unit = None /\ t_start = None))
    THEN "Both t_start and t_unit should be None or not None"
    ELSE IF t_unit = None /\ t_start = None THEN "return"
    ELSE IF t_unit.type # "int" THEN "t_unit should be an integer"
    ELSE IF ~(t_unit.val > 0) THEN "t_unit should be a positive integer"
    ELSE IF t_start.type # "int" THEN "t_start should be an integer"
    ELSE "set"

\* lines 174-175: both attributes are None on a new object.  before holds
\* the two attributes as they were when the latest call was made.
RvNew ==
    [exists |-> TRUE, t_start |-> None, t_unit |-> None, calls |-> 0,
     args |-> << None, None >>, outcome |-> "none",
     before |-> << None, None >>]

\* one call of set_timeseries(t_start, t_unit)
SetTimeseries ==
    /\ rv.exists
    /\ rv.calls < MaxTsCalls
    /\ \E t_start \in TsArgs, t_unit \in TsArgs :
         LET outcome == set_timeseries_check(t_start, t_unit)
         IN  rv' = [exists  |-> TRUE,
                    t_start |-> IF outcome = "set" THEN t_start ELSE rv.t_start,
                    t_unit  |-> IF outcome = "set" THEN t_unit ELSE rv.t_unit,
                    calls   |-> rv.calls + 1,
                    args    |-> << t_start, t_unit >>,
                    outcome |-> outcome,
                    before  |-> << rv.t_start, rv.t_unit >>]
    /\ UNCHANGED << infVars, dpVars, utilVars, scanVars, detVars, mdl >>

RvIdle == rv = [RvNew EXCEPT !.exists = FALSE]

\* none of the four components above is in use
MoreIdle ==
    /\ ScanIdle
    /\ DetIdle
    /\ MdlIdle
    /\ RvIdle

-----------------------------------------------------------------------------
(* Specifications *)

InitInfections ==
    /\ InfInputs
    /\ renewal = [RenewalIdle EXCEPT !.pc = "start"]
    /\ feedback = [FeedbackIdle EXCEPT !.pc = "start"]
    /\ DpIdleInputs
    /\ PadIdle
    /\ PbIdle
    /\ EpimIdle
    /\ MoreIdle

NextInfections ==
    \/ RenewalCall
    \/ RenewalScanStep
    \/ RenewalReturn
    \/ FeedbackCall
    \/ FeedbackScanStep
    \/ FeedbackReturn

SpecInfections == InitInfections /\ [][NextInfections]_vars

InitDifferenced ==
    /\ InfIdle
    /\ DpInputs
    /\ dp = [DpIdle EXCEPT !.pc = "start"]
    /\ PadIdle
    /\ PbIdle
    /\ EpimIdle
    /\ MoreIdle

NextDifferenced ==
    \/ SampleValidate
    \/ SampleDiffs
    \/ IntegrateStart
    \/ IntegrateStep
    \/ SampleReturn

SpecDifferenced == InitDifferenced /\ [][NextDifferenced]_vars

\* the padding functions
InitPad ==
    /\ InfIdle
    /\ DpIdleInputs
    /\ PadInputs
    /\ pad = [PadNotCalled EXCEPT !.pc = "start"]
    /\ PbIdle
    /\ EpimIdle
    /\ MoreIdle

NextPad ==
    \/ PadToMatchCall
    \/ PadXToMatchYCall

SpecPad == InitPad /\ [][NextPad]_vars

\* the periodic broadcaster
InitBroadcaster ==
    /\ InfIdle
    /\ DpIdleInputs
    /\ PadIdle
    /\ PbInputs
    /\ pb = [PbNotConstructed EXCEPT !.pc = "start"]
    /\ EpimIdle
    /\ MoreIdle

NextBroadcaster ==
    \/ PbConstruct
    \/ PbCall

SpecBroadcaster == InitBroadcaster /\ [][NextBroadcaster]_vars

\* the susceptible-depletion infections
InitEpim ==
    /\ InfIdle
    /\ DpIdleInputs
    /\ PadIdle
    /\ PbIdle
    /\ EpimInputs
    /\ epim = [EpimNotCalled EXCEPT !.pc = "start"]
    /\ MoreIdle

NextEpim ==
    \/ EpimValidate
    \/ EpimDrawS
    \/ EpimScanStep
    \/ EpimReturn

SpecEpim == InitEpim /\ [][NextEpim]_vars

\* everything of the components above is idle
OlderIdle ==
    /\ InfIdle
    /\ DpIdleInputs
    /\ PadIdle
    /\ PbIdle
    /\ EpimIdle

\* two scans that share one step function
InitScanners ==
    /\ OlderIdle
    /\ ScanInputs
    /\ scanner = NewClosure(scan_args)
    /\ scans = [i \in 1..2 |->
                   [ScanNotStarted EXCEPT !.carry = scan_args.init[i]]]
    /\ DetIdle
    /\ MdlIdle
    /\ RvIdle

NextScanners == ScanStep

SpecScanners == InitScanners /\ [][NextScanners]_vars

\* the deterministic process
InitDeterministic ==
    /\ OlderIdle
    /\ ScanIdle
    /\ DetInputs
    /\ det = [DetNotCalled EXCEPT !.pc = "start"]
    /\ MdlIdle
    /\ RvIdle

NextDeterministic == DetSample

SpecDeterministic == InitDeterministic /\ [][NextDeterministic]_vars

\* a Model object
InitModel ==
    /\ OlderIdle
    /\ ScanIdle
    /\ DetIdle
    /\ mdl = MdlNew
    /\ RvIdle

NextModel ==
    \/ MdlRun
    \/ MdlPosteriorPredictive
    \/ MdlPriorPredictive

SpecModel == InitModel /\ [][NextModel]_vars

\* a RandomVariable object
InitTimeseries ==
    /\ OlderIdle
    /\ ScanIdle
    /\ DetIdle
    /\ MdlIdle
    /\ rv = RvNew

NextTimeseries == SetTimeseries

SpecTimeseries == InitTimeseries /\ [][NextTimeseries]_vars

Init ==
    \/ InitInfections
    \/ InitDifferenced
    \/ InitPad
    \/ InitBroadcaster
    \/ InitEpim
    \/ InitScanners
    \/ InitDeterministic
    \/ InitModel
    \/ InitTimeseries

Next ==
    \/ NextInfections
    \/ NextDifferenced
    \/ NextPad
    \/ NextBroadcaster
    \/ NextEpim
    \/ NextScanners
    \/ NextDeterministic
    \/ NextModel
    \/ NextTimeseries

Spec == Init /\ [][Next]_vars

-----------------------------------------------------------------------------
(* Properties of the infection engines (SpecInfections) *)

ZeroStrength ==
    /\ infection_feedback_strength.kind = "vector"
    /\ \A t \in 1..Len(infection_feedback_strength.v) :
           infection_feedback_strength.v[t] = 0

\* C1: zero-feedback equivalence.  When the feedback strength is zero at
\* every step, the feedback engine returns the infections that
\* compute_infections_from_rt returns on the same I0, Rt and generation
\* kernel, and its adjusted Rt equals the raw Rt element by element.
C1_ZeroFeedbackEquivalence ==
    (ZeroStrength /\ feedback.pc = "done" /\ renewal.pc = "done")
        => /\ feedback.infections = renewal.all_infections
           /\ feedback.Rt_adjusted = Rt

\* both engines have returned on a zero-strength input of the longest
\* series, with a feedback kernel that differs from the generation kernel
\* and infections that are not all zero
C1_Witness ==
    /\ ZeroStrength
    /\ feedback.pc = "done"
    /\ renewal.pc = "done"
    /\ Len(Rt) = MaxT
    /\ reversed_infection_feedback_pmf # reversed_generation_interval_pmf
    /\ \E t \in 1..Len(Rt) : feedback.infections[t] > 0

\* the reference loop run on the inputs of the feedback engine (the loop
\* takes unreversed kernels)
FeedbackReference ==
    infection_w_feedback_alt(Flip(reversed_generation_interval_pmf), Rt, I0,
                             infection_feedback_strength.v,
                             Flip(reversed_infection_feedback_pmf))

\* C2: with a length-T feedback strength, the outputs of the feedback
\* engine are those of the step-by-step reference loop: at each step the
\* adjusted Rt is Rt_raw[t] * exp(strength[t] * dot(feedback kernel,
\* trailing window)) and the infection is that times dot(generation kernel,
\* trailing window); both outputs have length T.
C2_FeedbackMatchesReference ==
    feedback.pc = "done"
        => /\ Len(feedback.infections) = Len(Rt)
           /\ Len(feedback.Rt_adjusted) = Len(Rt)
           /\ feedback.infections = FeedbackReference.post_initialization_infections
           /\ feedback.Rt_adjusted = FeedbackReference.rt

\* the feedback engine has returned from a run of the longest series in
\* which feedback acted: the adjusted Rt differs from the raw Rt at the last
\* step
C2_Witness ==
    /\ feedback.pc = "done"
    /\ Len(Rt) = MaxT
    /\ feedback.Rt_adjusted[MaxT] # Rt[MaxT]
    /\ feedback.infections[MaxT] > 0

\* the trailing window before step t (1-based), rebuilt from I0 and the
\* returned infections: I0 at the first step, afterwards the previous
\* window without its oldest entry followed by the newest infection
RECURSIVE TrailingWindow(_, _)
TrailingWindow(t, infs) ==
    IF t = 1 THEN I0
    ELSE Tail(TrailingWindow(t - 1, infs)) \o << infs[t - 1] >>

\* C3: compute_infections_from_rt returns one value per element of Rt, and
\* the value of step t is Rt[t] times the dot product of the reversed
\* generation-interval kernel with the trailing window of that step.
C3_RenewalPerStep ==
    renewal.pc = "done"
        => /\ Len(renewal.all_infections) = Len(Rt)
           /\ \A t \in 1..Len(Rt) :
                  renewal.all_infections[t] =
                      Rt[t] * Dot(reversed_generation_interval_pmf,
                                  TrailingWindow(t, renewal.all_infections))

\* compute_infections_from_rt has returned a series of the longest length
\* whose last two values are positive and differ
C3_Witness ==
    /\ renewal.pc = "done"
    /\ Len(Rt) = MaxT
    /\ renewal.all_infections[MaxT] > 0
    /\ renewal.all_infections[MaxT - 1] > 0
    /\ renewal.all_infections[MaxT] # renewal.all_infections[MaxT - 1]

\* C4: the feedback engine accepts a scalar feedback strength s: the call
\* completes and returns the infections and adjusted Rt of the call with the
\* length-T vector whose every entry is s.
C4_ScalarStrengthAccepted ==
    (infection_feedback_strength.kind = "scalar"
        /\ feedback.pc \notin {"start", "scan"})
        => /\ feedback.pc = "done"
           /\ LET ref == infection_w_feedback_alt(
                             Flip(reversed_generation_interval_pmf), Rt, I0,
                             [t \in 1..Len(Rt) |-> infection_feedback_strength.v],
                             Flip(reversed_infection_feedback_pmf))
              IN  /\ feedback.infections = ref.post_initialization_infections
                  /\ feedback.Rt_adjusted = ref.rt

-----------------------------------------------------------------------------
(* Properties of DifferencedProcess (SpecDifferenced) *)

\* the 1-D view of init_vals that sample() works on
Inits == atleast_1d(init_vals).data

ValidN == n.type = "int" /\ n.val >= 1

\* the integrator has run all its rounds
Integrated ==
    \/ dp.pc = "done"
    \/ dp.pc = "integrating" /\ dp.rounds = Len(Inits)

\* C5: for every order n >= 1, n initial values and m differences, the
\* integrated series has length n + m, its first element is init_vals[0],
\* and it is the reference built from diffs by putting each initial value,
\* taken in reverse order, in front and taking the running sum.
C5_IntegratorCorrect ==
    Integrated
        => /\ Len(dp.integrated) = Len(Inits) + Len(dp.diffs)
           /\ dp.integrated[1] = Inits[1]
           /\ dp.integrated = result_manual(Inits, dp.diffs)

\* an integration of the largest order over at least two differences has
\* run all its rounds, from initial values that are not all equal
C5_Witness ==
    /\ Integrated
    /\ Len(Inits) = MaxOrder
    /\ Len(dp.diffs) >= 2
    /\ \E i \in 1..Len(Inits) : Inits[i] # Inits[1]

\* C6 as stated: when n equals the differencing order, sample returns
\* exactly init_vals, element for element, and makes no draw.
C6_ReturnsInitVals ==
    (dp.pc = "done" /\ n.val = differencing_order)
        => /\ dp.result = Inits
           /\ dp.fp_calls = 0
           /\ dp.fp_requested = 0

RECURSIVE Binomial(_, _)
Binomial(j, i) ==
    IF i = 0 \/ i = j THEN 1
    ELSE IF i < 0 \/ i > j THEN 0
    ELSE Binomial(j - 1, i - 1) + Binomial(j - 1, i)

\* C6 amended: when n equals the differencing order, sample makes no draw
\* and returns the series integrated from init_vals alone: n values, the
\* first equal to init_vals[0] and the one at (0-based) position j equal to
\* the sum over i <= j of binomial(j, i) * init_vals[i]; for order 1 that
\* is init_vals itself.
C6_ReturnsIntegratedInitVals ==
    (dp.pc = "done" /\ n.val = differencing_order)
        => /\ dp.fp_calls = 0
           /\ dp.fp_requested = 0
           /\ Len(dp.result) = differencing_order
           /\ dp.result[1] = Inits[1]
           /\ \A j \in 0..(differencing_order - 1) :
                  dp.result[j + 1] =
                      SumSeq([i \in 1..(j + 1) |->
                                  Binomial(j, i - 1) * Inits[i]])
           /\ differencing_order = 1 => dp.result = Inits

\* sample has returned for n equal to an order of at least 2, and the
\* result differs from init_vals
C6_Witness ==
    /\ dp.pc = "done"
    /\ n.val = differencing_order
    /\ differencing_order >= 2
    /\ dp.result # Inits

\* C7: for every positive integer n and every init_vals with as many
\* entries as the order, sample returns exactly n values, for n greater
\* than, equal to and smaller than the order; for n smaller than the order
\* they are the first n values of the integration of init_vals with no
\* differences.
C7_ResultHasLengthN ==
    /\ (ValidN /\ init_vals.ndim <= 1 /\ Len(Inits) = differencing_order)
           => dp.pc # "error"
    /\ dp.pc = "done"
           => /\ Len(dp.result) = n.val
              /\ n.val < differencing_order
                     => dp.result = SubSeq(result_manual(Inits, << >>), 1, n.val)

\* sample has returned for an n smaller than the order
C7_Witness ==
    /\ dp.pc = "done"
    /\ n.val < differencing_order
    /\ Len(dp.result) = n.val

\* C8: sample refuses every n that is not an integer and every integer
\* n < 1, whatever init_vals is, and its checks on n let every integer
\* n >= 1 pass.
C8_NValidation ==
    dp.pc # "start"
        => /\ n.type # "int"
               => dp.pc = "error" /\ dp.error = "n must be an integer"
           /\ (n.type = "int" /\ n.val < 1)
               => dp.pc = "error" /\ dp.error = "n must be positive"
           /\ ValidN
               => dp.error \notin {"n must be an integer", "n must be positive"}

\* n = 0 has been refused on a call whose init_vals has the right length
C8_Witness ==
    /\ dp.pc = "error"
    /\ n.type = "int"
    /\ n.val = 0
    /\ init_vals.ndim = 1
    /\ Len(Inits) = differencing_order
    /\ dp.error = "n must be positive"

\* C9: for every order k and valid n, a (scalar or 1-D) init_vals with
\* fewer or more than k entries is refused with the error asking for
\* exactly as many initial difference values as the order, and one with
\* exactly k entries is not refused.
C9_InitValsCount ==
    (dp.pc # "start" /\ ValidN /\ init_vals.ndim <= 1)
        => /\ Len(Inits) # differencing_order
               => /\ dp.pc = "error"
                  /\ dp.error = "exactly as many initial difference values"
           /\ Len(Inits) = differencing_order => dp.pc # "error"

\* init_vals with one entry more than the order has been refused
C9_Witness ==
    /\ dp.pc = "error"
    /\ ValidN
    /\ init_vals.ndim = 1
    /\ Len(Inits) = differencing_order + 1
    /\ dp.error = "exactly as many initial difference values"

\* C10: for a valid n, sample refuses every init_vals that is not
\* 1-dimensional with the "1-dimensional" error, whatever the size of its
\* first axis.
C10_NonOneDimensionalRefused ==
    (ValidN /\ init_vals.ndim = 2 /\ dp.pc \notin {"start", "validated", "integrate"})
        => /\ dp.pc = "error"
           /\ dp.error = "1-dimensional"

-----------------------------------------------------------------------------
(* Properties of the padding functions (SpecPad) *)

PadX == atleast_1d(pad_args.x).data
PadY == atleast_1d(pad_args.y).data
ValidDirection == pad_args.pad_direction \in {"start", "end"}
MaxOf(a, b) == IF a > b THEN a ELSE b

\* res is orig with exactly k copies of fill added, after orig for "end"
\* and before it for "start"
PaddedAs(res, orig, k, fill, pad_direction) ==
    /\ Len(res) = Len(orig) + k
    /\ IF pad_direction = "end"
       THEN /\ \A i \in 1..Len(orig) : res[i] = orig[i]
            /\ \A i \in (Len(orig) + 1)..Len(res) : res[i] = fill
       ELSE /\ \A i \in 1..k : res[i] = fill
            /\ \A i \in 1..Len(orig) : res[k + i] = orig[i]

\* C11: with fix_y false and a direction in {start, end}, pad_to_match
\* returns two sequences of length max(len(x), len(y)); the longer one (both
\* when the lengths are equal) is returned unchanged and the shorter one is
\* its original followed ("end") or preceded ("start") by |len(x) - len(y)|
\* copies of the fill value.
C11_PadToMatchResult ==
    (pad.op = "pad_to_match" /\ ~pad_args.fix_y /\ ValidDirection)
        => /\ pad.pc = "done"
           /\ Len(pad.x) = MaxOf(Len(PadX), Len(PadY))
           /\ Len(pad.y) = MaxOf(Len(PadX), Len(PadY))
           /\ Len(PadX) >= Len(PadY) => pad.x = PadX
           /\ Len(PadY) >= Len(PadX) => pad.y = PadY
           /\ Len(PadX) < Len(PadY)
                  => PaddedAs(pad.x, PadX, Len(PadY) - Len(PadX),
                              pad_args.fill_value, pad_args.pad_direction)
           /\ Len(PadY) < Len(PadX)
                  => PaddedAs(pad.y, PadY, Len(PadX) - Len(PadY),
                              pad_args.fill_value, pad_args.pad_direction)

\* y is shorter by two and is padded at the start with a fill value that
\* differs from its first element
C11_Witness ==
    /\ pad.op = "pad_to_match"
    /\ pad.pc = "done"
    /\ ~pad_args.fix_y
    /\ pad_args.pad_direction = "start"
    /\ Len(PadX) = Len(PadY) + 2
    /\ Len(PadY) >= 1
    /\ PadY[1] # pad_args.fill_value
    /\ pad.padded

\* C12: for a direction in {start, end}, pad_to_match with fix_y true
\* raises the fix_y ValueError exactly when len(x) > len(y) and otherwise
\* returns y unchanged; pad_x_to_match_y returns a sequence of length
\* len(y) whenever len(x) <= len(y) and raises whenever len(x) > len(y).
C12_FixYNeverPadsY ==
    (pad.pc # "start" /\ ValidDirection)
        => /\ (pad.op = "pad_to_match" /\ pad_args.fix_y)
                  => /\ (pad.pc = "error") <=> (Len(PadX) > Len(PadY))
                     /\ pad.pc = "done" => pad.y = PadY
           /\ pad.op = "pad_x_to_match_y"
                  => /\ Len(PadX) <= Len(PadY)
                            => (pad.pc = "done" /\ Len(pad.x) = Len(PadY))
                     /\ Len(PadX) > Len(PadY)
                            => /\ pad.pc = "error"
                               /\ pad.error = "Cannot fix y when x is longer than y"

\* pad_x_to_match_y has padded an x that was shorter than y
C12_Witness ==
    /\ pad.op = "pad_x_to_match_y"
    /\ pad.pc = "done"
    /\ ValidDirection
    /\ Len(PadX) < Len(PadY)
    /\ pad.padded
    /\ Len(pad.x) = Len(PadY)

\* C13: a pad_direction other than "start" or "end" makes pad_to_match
\* raise the direction ValueError for every pair of inputs, equal lengths
\* and fix_y with a longer x included, with nothing padded.
C13_InvalidDirectionRaisesFirst ==
    (pad.pc # "start" /\ ~ValidDirection)
        => /\ pad.pc = "error"
           /\ pad.error = "pad_direction must be either 'start' or 'end'"
           /\ ~pad.padded
           /\ pad.x = PadX
           /\ pad.op = "pad_to_match" => pad.y = PadY

\* the direction is invalid, y is fixed and x is the longer one
C13_Witness ==
    /\ pad.op = "pad_to_match"
    /\ pad.pc = "error"
    /\ ~ValidDirection
    /\ pad_args.fix_y
    /\ Len(PadX) > Len(PadY)

-----------------------------------------------------------------------------
(* Properties of the periodic broadcaster (SpecBroadcaster) *)

\* the constructor arguments are a combination validate lets through
ValidPbArgs ==
    /\ pb_args.period_size.type = "int"
    /\ pb_args.period_size.val >= 1
    /\ pb_args.offset.type = "int"
    /\ 0 <= pb_args.offset.val
    /\ pb_args.offset.val <= pb_args.period_size.val - 1
    /\ pb_args.broadcast_type \in {"repeat", "tile"}

PbExists == pb.pc = "ready"
PbCalled == PbExists /\ pb.calls > 0

\* C14: a PeriodicBroadcaster that exists has period_size >= 1,
\* 0 <= offset <= period_size - 1 and broadcast_type in {repeat, tile};
\* construction with any other combination fails with an assertion error
\* and leaves no object; after any number of applications the three
\* parameters are still the ones the constructor was given.
C14_BroadcasterInvariant ==
    /\ PbExists
           => /\ pb.period_size >= 1
              /\ 0 <= pb.offset
              /\ pb.offset <= pb.period_size - 1
              /\ pb.broadcast_type \in {"repeat", "tile"}
              /\ pb.period_size = pb_args.period_size.val
              /\ pb.offset = pb_args.offset.val
              /\ pb.broadcast_type = pb_args.broadcast_type
    /\ pb.pc \in {"ready", "error"}
           => /\ PbExists <=> ValidPbArgs
              /\ (pb.pc = "error") <=> (pb.error # "none")
    /\ pb.pc = "error" => pb.calls = 0

\* an object with the largest offset of its period has been applied twice
C14_Witness ==
    /\ PbExists
    /\ pb.calls >= 2
    /\ pb.period_size >= 2
    /\ pb.offset = pb.period_size - 1

\* C15 (as claimed): in repeat mode the result has exactly n_timepoints
\* elements for every valid configuration, non-empty data and n_timepoints.
C15_RepeatHasLengthN ==
    (PbCalled /\ pb.broadcast_type = "repeat")
        => Len(pb.out) = pb.n_timepoints

\* C16 (as claimed): in tile mode the result has exactly n_timepoints
\* elements for every valid configuration, non-empty data and n_timepoints.
C16_TileHasLengthN ==
    (PbCalled /\ pb.broadcast_type = "tile")
        => Len(pb.out) = pb.n_timepoints

\* C17: in repeat mode the returned element at 0-based index i is
\* data[(offset + i) div period_size]; with offset 0 the output is constant
\* within each block of period_size indices.
C17_RepeatElements ==
    (PbCalled /\ pb.broadcast_type = "repeat")
        => /\ \A i \in 0..(Len(pb.out) - 1) :
                  /\ (pb.offset + i) \div pb.period_size < Len(pb.data)
                  /\ pb.out[i + 1]
                         = pb.data[((pb.offset + i) \div pb.period_size) + 1]
           /\ pb.offset = 0
                  => \A i, j \in 0..(Len(pb.out) - 1) :
                         (i \div pb.period_size = j \div pb.period_size)
                             => pb.out[i + 1] = pb.out[j + 1]

\* a shifted repeat whose output runs over more than one data value
C17_Witness ==
    /\ PbCalled
    /\ pb.broadcast_type = "repeat"
    /\ pb.offset >= 1
    /\ Len(pb.out) >= 3
    /\ pb.out[1] # pb.out[Len(pb.out)]

\* the output of the same object, data and n_timepoints with offset 0
OutOffset0 ==
    broadcast(pb.period_size, 0, pb.broadcast_type, pb.data, pb.n_timepoints)

\* C18: in both modes the output with offset k is the output with offset 0
\* shifted by k positions: out_0[k:] and out_k[:n_timepoints - k] have the
\* same length and the same elements.
C18_OffsetIsPhaseShift ==
    PbCalled
        => \A j \in 0..(pb.n_timepoints - pb.offset - 1) :
               /\ (j + pb.offset < Len(OutOffset0)) <=> (j < Len(pb.out))
               /\ j < Len(pb.out)
                      => OutOffset0[j + pb.offset + 1] = pb.out[j + 1]

\* a shifted output that overlaps the unshifted one in at least two
\* positions holding different values
C18_Witness ==
    /\ PbCalled
    /\ pb.offset >= 1
    /\ pb.n_timepoints >= pb.offset + 2
    /\ Len(pb.out) >= 2
    /\ pb.out[1] # pb.out[2]

-----------------------------------------------------------------------------
(* Properties of the susceptible-depletion infections (SpecEpim) *)

\* C19 (as claimed): every step drops the oldest entry of the window and
\* appends the new infection, so after any number of steps the window has
\* the length of the generation interval and holds, in time order, the most
\* recent values of the initial window followed by the infections so far.
C19_WindowDropsOldest ==
    epim.pc \in {"scan", "done"}
        => /\ Len(epim.I_recent) = Len(epim_args.gen_int)
           /\ epim.I_recent
                  = Last(epim.recent_I0 \o epim.ys, Len(epim_args.gen_int))

\* C20 (as claimed): sample returns one infection per element of Rt and a
\* susceptible trajectory with one count per element of Rt whose entry t is
\* the susceptible pool after step t.
C20_ReturnsSusceptibleTrajectory ==
    epim.pc = "done"
        => /\ Len(epim.all_I_t) = Len(epim_args.Rt)
           /\ Len(epim.all_S_t) = Len(epim_args.Rt)
           /\ \A t \in 1..Len(epim.all_S_t) :
                  epim.all_S_t[t]
                      = epim.init_S - SumSeq(SubSeq(epim.all_I_t, 1, t))

\* C21: sample raises the length ValueError exactly when I0 is shorter than
\* the generation interval, before the susceptible proportion is drawn and
\* before any scan step; otherwise no error is raised and the initial window
\* is the last len(gen_int) values of I0.
C21_I0LengthValidation ==
    epim.pc # "start"
        => /\ (epim.pc = "error")
                  <=> (Len(epim_args.I0) < Len(epim_args.gen_int))
           /\ epim.pc = "error"
                  => /\ epim.error = "Initial infections vector must be at least as long as the generation interval"
                     /\ epim.I_recent = << >>
                     /\ epim.init_S = 0
                     /\ epim.S_t = 0
                     /\ epim.t = 0
                     /\ epim.ys = << >>
           /\ epim.pc # "error"
                  => /\ epim.error = "none"
                     /\ Len(epim.recent_I0) = Len(epim_args.gen_int)
                     /\ \A i \in 1..Len(epim_args.gen_int) :
                            epim.recent_I0[i]
                                = epim_args.I0[Len(epim_args.I0)
                                                   - Len(epim_args.gen_int) + i]
                     /\ (epim.pc = "scan" /\ epim.t = 0)
                            => epim.I_recent = epim.recent_I0

\* I0 is one shorter than the generation interval and the call has failed
C21_Witness ==
    /\ epim.pc = "error"
    /\ Len(epim_args.I0) + 1 = Len(epim_args.gen_int)

-----------------------------------------------------------------------------
(* Further properties of the differenced process (SpecDifferenced) *)

-----------------------------------------------------------------------------
(* Properties of scans that share a step function (SpecScanners) *)

\* the values a scan has computed so far: its outputs for the single
\* scanner, the first component of its outputs for the double scanner
NewValues(i) ==
    IF scan_args.kind = "single"
    THEN scans[i].ys
    ELSE [j \in 1..Len(scans[i].ys) |-> scans[i].ys[j][1]]

\* C23: after any number of steps of a scan built from the single or the
\* double scanner, the carried window has the length of the initial history
\* (the kernel length), and it is the initial history with one oldest entry
\* dropped and one new value appended per step.
C23_WindowLengthFixed ==
    \A i \in DOMAIN scans :
        LET k       == Len(scan_args.init[i])
            history == scan_args.init[i] \o NewValues(i)
        IN  /\ k = Len(scan_args.arrays[1])
            /\ Len(scans[i].carry) = k
            /\ \A j \in 1..k :
                   scans[i].carry[j] = history[scans[i].t + j]

\* a scan of the single scanner has taken two steps and its window holds
\* none of the initial history in its last two places
C23_Witness ==
    /\ scans # << >>
    /\ scan_args.kind = "single"
    /\ scans[1].t >= 2
    /\ scans[1].carry # scan_args.init[1]
    /\ scans[1].carry[Len(scans[1].carry)] = scans[1].ys[scans[1].t]

\* jax.lax.scan(f, init, xs) of one scan that runs alone, from the state
\* the step function has when the factory returns it
RECURSIVE ScanAlone(_, _, _, _)
ScanAlone(closure, carry, xs, ys) ==
    IF xs = << >>
    THEN [carry |-> carry, ys |-> ys]
    ELSE LET out == StepFunction(closure, carry, Head(xs))
         IN  ScanAlone(ClosureAfterCall(closure, out), out[1], Tail(xs),
                       Append(ys, out[2]))

AloneAfter(i, steps) ==
    ScanAlone(NewClosure(scan_args), scan_args.init[i],
              SubSeq(scan_args.xs[i], 1, steps), << >>)

\* C24: the step function carries no state between calls: however the
\* steps of the two scans are interleaved, each scan has the history and
\* the outputs it has after the same number of steps when it runs alone,
\* what the step function holds on to is what the factory gave it, and the
\* history handed to a step is unchanged by that step.
C24_StepFunctionStateless ==
    /\ scans # << >> => scanner = NewClosure(scan_args)
    /\ \A i \in DOMAIN scans :
           /\ scans[i].carry = AloneAfter(i, scans[i].t).carry
           /\ scans[i].ys = AloneAfter(i, scans[i].t).ys
           /\ scans[i].t >= 1
                  => scans[i].given = AloneAfter(i, scans[i].t - 1).carry

\* both scans have finished, from different initial histories and with
\* different outputs
C24_Witness ==
    /\ scans # << >>
    /\ scans[1].t = Len(scan_args.xs[1])
    /\ scans[2].t = Len(scan_args.xs[2])
    /\ scans[1].t >= 2
    /\ scan_args.init[1] # scan_args.init[2]
    /\ scans[1].ys # scans[2].ys

-----------------------------------------------------------------------------
(* Draws and differences of the differenced process (SpecDifferenced) *)

\* C25: sample asks the fundamental process for values at most once per
\* call: for n greater than the differencing order one call requests
\* exactly n - order values, and for n up to the order there is no call.
C25_FundamentalProcessCalledOnce ==
    /\ dp.fp_calls <= 1
    /\ dp.pc \in {"start", "validated", "idle"}
           => (dp.fp_calls = 0 /\ dp.fp_requested = 0)
    /\ dp.pc \in {"integrate", "integrating", "done"}
           => IF n.val > differencing_order
              THEN /\ dp.fp_calls = 1
                   /\ dp.fp_requested = n.val - differencing_order
                   /\ Len(dp.diffs) = n.val - differencing_order
              ELSE /\ dp.fp_calls = 0
                   /\ dp.fp_requested = 0
                   /\ dp.diffs = << >>

\* a call for two values more than the order has returned
C25_Witness ==
    /\ dp.pc = "done"
    /\ n.val = differencing_order + 2
    /\ dp.fp_calls = 1

\* the forward difference of a sequence, one element shorter
Diff(a) == [i \in 1..(Len(a) - 1) |-> a[i + 1] - a[i]]

\* the j-th forward difference
RECURSIVE DiffN(_, _)
DiffN(a, j) == IF j = 0 THEN a ELSE DiffN(Diff(a), j - 1)

\* C26: init_vals are the initial values of the successive differences of
\* the integrated sequence: its j-th forward difference starts with
\* init_vals[j] for every j below the order k, and its k-th forward
\* difference is diffs.
C26_DifferencingUndoesIntegration ==
    (dp.pc \in {"integrating", "done"} /\ dp.rounds = Len(Inits))
        => /\ \A j \in 0..(Len(Inits) - 1) :
                  DiffN(dp.integrated, j)[1] = Inits[j + 1]
           /\ DiffN(dp.integrated, Len(Inits)) = dp.diffs

\* order 2, two differences drawn, and initial values that differ
C26_Witness ==
    /\ dp.pc = "done"
    /\ differencing_order = 2
    /\ Len(dp.diffs) = 2
    /\ Inits[1] # Inits[2]
    /\ Inits[2] # 0

-----------------------------------------------------------------------------
(* Tiling of the periodic broadcaster (SpecBroadcaster) *)

\* C27: in tile mode the returned element at 0-based index i is
\* data[(offset + i) mod len(data)]; with len(data) = period_size two
\* indices that differ by a multiple of period_size hold the same value.
C27_TileElements ==
    (PbCalled /\ pb.broadcast_type = "tile")
        => /\ \A i \in 0..(Len(pb.out) - 1) :
                  pb.out[i + 1]
                      = pb.data[((pb.offset + i) % Len(pb.data)) + 1]
           /\ Len(pb.data) = pb.period_size
                  => \A i, j \in 0..(Len(pb.out) - 1) :
                         (i % pb.period_size = j % pb.period_size)
                             => pb.out[i + 1] = pb.out[j + 1]

\* a shifted tiling of data as long as the period that wraps around
C27_Witness ==
    /\ PbCalled
    /\ pb.broadcast_type = "tile"
    /\ pb.offset >= 1
    /\ Len(pb.data) = pb.period_size
    /\ Len(pb.out) > pb.period_size
    /\ pb.out[1] # pb.out[2]

-----------------------------------------------------------------------------
(* Properties of the deterministic process (SpecDeterministic) *)

\* C28: sample(duration) returns exactly duration values: the stored
\* sequence followed by copies of its last value when it is shorter than
\* duration, its first duration values otherwise.
C28_DurationValues ==
    det.pc = "done"
        => /\ Len(det.result) = det_args.duration
           /\ \A i \in 1..det_args.duration :
                  det.result[i]
                      = IF i <= Len(det_args.vars)
                        THEN det_args.vars[i]
                        ELSE det_args.vars[Len(det_args.vars)]

\* a stored sequence that is extended by two values that differ from its
\* first one
C28_Witness ==
    /\ det.pc = "done"
    /\ det_args.duration = Len(det_args.vars) + 2
    /\ det_args.vars[1] # det_args.vars[Len(det_args.vars)]

-----------------------------------------------------------------------------
(* Properties of the Model object (SpecModel) *)

\* run was called before the k-th call
RunCalledBefore(k) ==
    \E j \in 1..(k - 1) : mdl.log[j][1] = "run"

\* a run returned before the k-th call
RunCompletedBefore(k) ==
    \E j \in 1..(k - 1) : mdl.log[j] = << "run", "returned" >>

\* C29: in every sequence of calls on a Model, posterior_predictive raises
\* the "No posterior samples available" ValueError whenever run was not
\* called before it and never raises it once a run has completed, and
\* prior_predictive returns whether or not run was called.
C29_PosteriorNeedsRun ==
    mdl.exists
        => \A k \in 1..Len(mdl.log) :
               /\ mdl.log[k][1] = "posterior_predictive"
                      => /\ ~RunCalledBefore(k)
                                => mdl.log[k][2] = NoPosteriorSamples
                         /\ RunCompletedBefore(k)
                                => mdl.log[k][2] # NoPosteriorSamples
               /\ mdl.log[k][1] = "prior_predictive"
                      => mdl.log[k][2] = "returned"

\* a run completes, a second run fails while sampling, and
\* posterior_predictive is called
C29_Witness ==
    /\ mdl.exists
    /\ Len(mdl.log) >= 3
    /\ mdl.log[1] = << "run", "returned" >>
    /\ mdl.log[2] = << "run", "mcmc.run raised" >>
    /\ mdl.log[3][1] = "posterior_predictive"

-----------------------------------------------------------------------------
(* Properties of set_timeseries (SpecTimeseries) *)

\* C30: after any sequence of set_timeseries calls t_start and t_unit are
\* both None, or both set with t_unit a positive integer and t_start an
\* integer; a rejected call and a call with both arguments None leave both
\* attributes as they were.
C30_TimeseriesAttributes ==
    rv.exists
        => /\ \/ (rv.t_start = None /\ rv.t_unit = None)
              \/ /\ rv.t_unit.type = "int"
                 /\ rv.t_unit.val > 0
                 /\ rv.t_start.type = "int"
           /\ (rv.calls > 0 /\ rv.outcome # "set")
                  => << rv.t_start, rv.t_unit >> = rv.before
           /\ (rv.calls > 0 /\ rv.args = << None, None >>)
                  => /\ rv.outcome = "return"
                     /\ << rv.t_start, rv.t_unit >> = rv.before

\* an accepted call is followed by a call that is rejected for its t_unit
C30_Witness ==
    /\ rv.exists
    /\ rv.calls = 2
    /\ rv.outcome = "t_unit should be a positive integer"
    /\ rv.before[2].type = "int"
    /\ rv.t_unit = rv.before[2]

=============================================================================
